---------------------------- MODULE Spec2Model ----------------------------
(***************************************************************************)
(* A state-machine model of the two notebooks of imedan/emit_tutorial,     *)
(* each executed top to bottom ("Run All"):                                *)
(*                                                                         *)
(*   notebook 1  src/bh_mass_spectrum.ipynb  black hole mass from H-beta   *)
(*   notebook 2  src/unnamed/part_000        companion mass from RV data   *)
(*                                                                         *)
(* One action per code cell; a cell that raises stops the run.  The cells  *)
(* marked "ADD CODE HERE" are modelled by the formula the surrounding      *)
(* markdown documents, with the values the data would supply drawn from    *)
(* small sets.  Calls into thejoker, pymc, arviz and scipy are modelled by *)
(* what the call does with the arguments the notebook passes; the          *)
(* likelihood of a sample and the bit stream of the generator are          *)
(* abstracted to small integer functions.                                  *)
(***************************************************************************)
EXTENDS Integers, Sequences, FiniteSets, TLC

VARIABLES
    nb,                 \* which notebook this run executes (1 or 2)
    \* ---- notebook 2 (src/unnamed/part_000) ----
    pc2,                \* the next cell of notebook 2
    ns2,                \* names bound in the kernel of notebook 2
    rnd,                \* position of the generator rnd in its stream
    sharpness,          \* how strongly each data list constrains the orbit
    prior_pars,         \* the parameters of prior, prior_joint, prior_mcmc
    data,               \* the data list of the joint fit
    prior_samples,      \* pool drawn from prior
    samples,            \* retained by the TRES-only rejection sampling
    prior_samples_joint,\* pool drawn from prior_joint
    samples_joint,      \* retained by the joint rejection sampling
    mcmc_init,          \* start point returned by setup_mcmc
    mc,                 \* pm.sample: chain, tuned, drawn, start
    trace,              \* posterior draws kept per finished chain
    walk,               \* where the running chain is in parameter space
    chain_ends,         \* where each finished chain of the trace ended
    converged,          \* whether r_hat of every parameter is acceptable
    mcmc_samples,       \* JokerSamples built from the trace
    out2,               \* what the cells of notebook 2 have displayed
    access,             \* which operation read / mutated which object
    err2,               \* the exception that stopped notebook 2, or "none"
    \* ---- notebook 1 (src/bh_mass_spectrum.ipynb) ----
    pc1,                \* the next cell of notebook 1
    ns1,                \* names bound in the kernel of notebook 1
    L5100,              \* continuum luminosity at 5100 A, in 1e46 erg/s
    popt,               \* fitted widths of the H-beta components, in A
    fwhm,               \* FWHM of broad H-beta as a velocity, in km/s
    M,                  \* black hole mass, in solar masses
    out1,               \* what the cells of notebook 1 have displayed
    done1,              \* the stages of notebook 1 completed, in order
    err1                \* the exception that stopped notebook 1, or "none"

vars2 == <<pc2, ns2, rnd, sharpness, prior_pars, data, prior_samples, samples,
           prior_samples_joint, samples_joint, mcmc_init, mc, trace,
           walk, chain_ends, converged, mcmc_samples, out2, access, err2>>

vars1 == <<pc1, ns1, L5100, popt, fwhm, M, out1, done1, err1>>

vars == <<nb, vars1, vars2>>

-----------------------------------------------------------------------------
(* Bounds of the model *)

\* stands for size=1_000_000 of prior.sample: larger than the retained maximum
PoolSize == 258

(* Program constants of notebook 2 *)
seed == 42
max_posterior_samples == 256
max_posterior_samples_joint == 256
tune == 1000
draws == 500
chains == 2

-----------------------------------------------------------------------------
(* The generator: np.random.default_rng(seed).  Its state is a position in *)
(* the stream the seed fixes; every variate drawn advances the position.   *)

Modulus == 2 * PoolSize + 7

Stream(p) == (p + seed) % Modulus

\* the positions a draw of n variates consumes, starting after position p
Drawn(p, n) == (p + 1)..(p + n)

Min(S) == CHOOSE x \in S : \A y \in S : x <= y

\* the cell that follows cell c in a notebook whose cells are, in order, cells
After(cells, c) ==
    LET k == CHOOSE j \in DOMAIN cells : cells[j] = c
    IN  cells[k + 1]

-----------------------------------------------------------------------------
(* thejoker: rejection sampling.  A prior sample is identified by the      *)
(* stream position it was drawn at; Stream of it orders the samples by     *)
(* period and by misfit.  The log-likelihood of sample i is                *)
(* -sharp * Misfit(i); sample i is accepted when                           *)
(* lnlike(i) - max lnlike > ln u(i), with ln u(i) = -(1 + Stream(u)) < 0.  *)

Sharpness == {0, 1, Modulus}

Misfit(i) == Stream(i)

LnLike(sharp, i) == 0 - sharp * Misfit(i)

LnUniform(p) == 0 - (1 + Stream(p))

\* acceptance on the log-likelihood itself, not relative to the best of the pool
AcceptedAbsolute(sharp, pool, p) ==
    LET base == Min(pool) - 1
    IN  {i \in pool : LnLike(sharp, i) > LnUniform(p + (i - base))}

\* u(i) is the i-th uniform drawn after position p, pool positions ascending
Accepted(sharp, pool, p) ==
    LET best == 0 - sharp * Min({Misfit(i) : i \in pool})
        base == Min(pool) - 1
    IN  {i \in pool : LnLike(sharp, i) - best > LnUniform(p + (i - base))}

\* the accepted samples returned whole, max_posterior_samples not applied
TruncateNone(S, n) == S

\* good_samples_idx[:max_posterior_samples]
Truncate(S, n) == {i \in S : Cardinality({j \in S : j < i}) < n}

rejection_sample(sharp, pool, p, n) == Truncate(Accepted(sharp, pool, p), n)


\* a display of the number of samples asked for instead of the number held
EchoRequested(kept) == IF kept = {} THEN 0 ELSE max_posterior_samples

\* the repr of a JokerSamples object shows how many samples it holds
Echo(kept) == Cardinality(kept)

\* JokerSamples.median_period(): the sample at the middle of the period order
MedianPeriod(S) ==
    CHOOSE i \in S : Cardinality({j \in S : Stream(j) < Stream(i)})
                        = Cardinality(S) \div 2

NoInit == [point |-> 0, data |-> <<>>]

\* TheJoker.setup_mcmc(data, joker_samples): the start point of the chains
setup_mcmc(d, joker_samples) ==
    IF joker_samples = {} THEN NoInit
    ELSE [point |-> IF Cardinality(joker_samples) > 1
                    THEN MedianPeriod(joker_samples)
                    ELSE CHOOSE i \in joker_samples : TRUE,
          data  |-> d]

-----------------------------------------------------------------------------
(* Notebook 2, cell by cell *)

\* pm.Lognormal("s", mu, sigma): the jitter parameter; sigma in tenths
Lognormal(name, mu, sigma) == [name |-> name, mu |-> mu, sigma |-> sigma]

\* a prior with an offset parameter for every dataset of the data list
v0_offsets_per_dataset == <<"dv0_0", "dv0_1">>

\* lines 271 and 285: v0_offsets=[dv0_1], the APOGEE - TRES velocity offset
v0_offsets_joint == <<"dv0_1">>

\* lines 333 and 343: v0_offsets=[dv0_1]
v0_offsets_mcmc == <<"dv0_1">>

\* tj.JokerPrior.default(P_min=, P_max=, ..., s=, v0_offsets=): the default
\* nonlinear and linear parameters, the jitter, and one more linear parameter
\* for each offset
JokerPriorDefault(P_min, P_max, s, v0_offsets) ==
    [P_min      |-> P_min,
     P_max      |-> P_max,
     s          |-> s,
     v0_offsets |-> v0_offsets,
     par_names  |-> <<"P", "e", "omega", "M0", s.name, "K", "v0">>
                        \o v0_offsets]

NoPrior == JokerPriorDefault(0, 0, Lognormal("", 0, 0), <<>>)

Priors == {"prior", "prior_joint", "prior_mcmc"}

\* the code cells in the order of the file; "sampling" is pm.sample running
\* inside the "mcmc" cell, "done" the end of the notebook
Cells2 == <<"imports", "rvdata", "tres", "tbl", "plot_tres", "joint",
            "mcmc", "sampling", "results", "corner", "mass_function", "done">>

\* the names a cell reads that an earlier cell must have bound
Reads2(c) ==
    CASE c = "rvdata"        -> {"tres_tbl", "apogee_tbl"}
      [] c = "tres"          -> {"rnd", "tres_data"}
      [] c = "tbl"           -> {"samples"}
      [] c = "plot_tres"     -> {"samples", "tres_data"}
      [] c = "joint"         -> {"rnd", "apogee_data", "tres_data"}
      [] c = "mcmc"          -> {"rnd", "data", "samples_joint", "seed"}
      [] c = "results"       -> {"prior_joint", "trace", "data", "prior_mcmc"}
      [] c = "corner"        -> {"df"}
      [] c = "mass_function" -> {"mcmc_samples"}
      [] OTHER               -> {}

Acc(op, obj, mode) == [op |-> op, obj |-> obj, mode |-> mode]

Shown(cell, kind, obj, n) == [cell |-> cell, kind |-> kind, obj |-> obj, n |-> n]

\* a cell that reads a name no earlier cell has bound raises NameError, binds
\* nothing, and the run stops there
NameError2 ==
    /\ err2' = "NameError"
    /\ UNCHANGED <<pc2, ns2, rnd, sharpness, prior_pars, walk, chain_ends,
                   data, prior_samples, samples, prior_samples_joint,
                   samples_joint, mcmc_init, mc, trace, converged,
                   mcmc_samples, out2, access>>

Cell2(c, run) ==
    /\ nb = 2
    /\ pc2 = c
    /\ err2 = "none"
    /\ IF Reads2(c) \subseteq ns2 THEN run /\ err2' = err2 ELSE NameError2
    /\ UNCHANGED <<nb, vars1>>

\* the imports cell with a generator that is not seeded: rnd starts anywhere
ImportsRunUnseeded ==
    /\ ns2' = ns2 \cup {"seed", "rnd", "tres_tbl", "apogee_tbl"}
    /\ rnd' \in {0, 1}
    /\ pc2' = After(Cells2, "imports")
    /\ UNCHANGED <<sharpness, prior_pars, walk, chain_ends, data,
                   prior_samples, samples, prior_samples_joint,
                   samples_joint, mcmc_init, mc, trace, converged,
                   mcmc_samples, out2, access>>

\* lines 52-96: imports, seed, rnd, the two tables
ImportsRun ==
    /\ ns2' = ns2 \cup {"seed", "rnd", "tres_tbl", "apogee_tbl"}
    /\ rnd' = 0
    /\ pc2' = After(Cells2, "imports")
    /\ UNCHANGED <<sharpness, prior_pars, walk, chain_ends, data,
                   prior_samples, samples, prior_samples_joint,
                   samples_joint, mcmc_init, mc, trace, converged,
                   mcmc_samples, out2, access>>

ImportsCell == Cell2("imports", ImportsRun)

\* lines 114-127: the RVData objects and the plot of the TRES data
RVDataRun ==
    /\ ns2' = ns2 \cup {"tres_data", "apogee_data"}
    /\ out2' = out2 \cup {Shown("rvdata", "plot", "tres_data", 11)}
    /\ access' = access \cup {Acc("tres_data.plot", "tres_data", "r")}
    /\ pc2' = After(Cells2, "rvdata")
    /\ UNCHANGED <<rnd, sharpness, prior_pars, walk, chain_ends, data,
                   prior_samples, samples, prior_samples_joint,
                   samples_joint, mcmc_init, mc, trace, converged,
                   mcmc_samples>>

RVDataCell == Cell2("rvdata", RVDataRun)

\* what prior.sample(rng=rnd) reads and mutates: each variate drawn advances rnd
AccessSample(op) == {Acc(op, "rnd", "r"), Acc(op, "rnd", "w")}

\* a rejection sampler that also rescales the data objects in place
AccessRejectRescales(op, pool, d) ==
    {Acc(op, "rnd", "r"), Acc(op, "rnd", "w"), Acc(op, pool, "r")}
        \cup {Acc(op, d[k], "r") : k \in DOMAIN d}
        \cup {Acc(op, d[k], "w") : k \in DOMAIN d}

\* what rejection_sample of a sampler built with rng=rnd reads and mutates
AccessReject(op, pool, d) ==
    {Acc(op, "rnd", "r"), Acc(op, "rnd", "w"), Acc(op, pool, "r")}
        \cup {Acc(op, d[k], "r") : k \in DOMAIN d}

\* lines 182-202: prior, prior_samples, joker, samples, echo of samples
TresRun ==
    /\ LET pool == Drawn(rnd, PoolSize)
           kept == rejection_sample(sharpness[<<"tres_data">>], pool, rnd + PoolSize,
                                    max_posterior_samples)
       IN  /\ prior_samples' = pool
           /\ samples' = kept
           /\ out2' = out2 \cup {Shown("tres", "echo", "samples", Echo(kept))}
    /\ rnd' = rnd + 2 * PoolSize
    /\ ns2' = ns2 \cup {"model", "s", "prior", "prior_samples", "joker",
                        "samples"}
    /\ access' = access \cup AccessSample("prior.sample")
          \cup AccessReject("joker.rejection_sample", "prior_samples",
                            <<"tres_data">>)
    /\ prior_pars' = [prior_pars EXCEPT !["prior"] =
          JokerPriorDefault(16, 128, Lognormal("s", -2, 10), <<>>)]
    /\ pc2' = After(Cells2, "tres")
    /\ UNCHANGED <<sharpness, walk, chain_ends, data, prior_samples_joint,
                   samples_joint, mcmc_init, mc, trace, converged,
                   mcmc_samples>>

TresCell == Cell2("tres", TresRun)

\* line 229: samples.tbl["P", "e", "K"]
TblRun ==
    /\ out2' = out2 \cup {Shown("tbl", "echo", "samples", Echo(samples))}
    /\ access' = access \cup {Acc("samples.tbl", "samples", "r")}
    /\ pc2' = After(Cells2, "tbl")
    /\ UNCHANGED <<ns2, rnd, sharpness, prior_pars, walk, chain_ends, data,
                   prior_samples, samples, prior_samples_joint,
                   samples_joint, mcmc_init, mc, trace, converged,
                   mcmc_samples>>

TblCell == Cell2("tbl", TblRun)

\* line 239: tj.plot_rv_curves(samples, data=tres_data)
PlotTresRun ==
    /\ out2' = out2 \cup {Shown("plot_tres", "plot", "samples", Echo(samples))}
    /\ access' = access \cup {Acc("plot_rv_curves", "samples", "r"),
                              Acc("plot_rv_curves", "tres_data", "r")}
    /\ pc2' = After(Cells2, "plot_tres")
    /\ UNCHANGED <<ns2, rnd, sharpness, prior_pars, walk, chain_ends, data,
                   prior_samples, samples, prior_samples_joint,
                   samples_joint, mcmc_init, mc, trace, converged,
                   mcmc_samples>>

PlotTresCell == Cell2("plot_tres", PlotTresRun)

\* the joint cell binding its result to samples, the name of the TRES-only
\* result, instead of samples_joint
JointRunRebindsSamples ==
    /\ LET d    == <<"apogee_data", "tres_data">>
           pool == Drawn(rnd, PoolSize)
           kept == rejection_sample(sharpness[d], pool, rnd + PoolSize,
                                    max_posterior_samples_joint)
       IN  /\ data' = d
           /\ prior_samples_joint' = pool
           /\ samples' = kept
           /\ out2' = out2 \cup
                 {Shown("joint", "plot", "samples", Echo(kept))}
           /\ access' = access \cup AccessSample("prior_joint.sample")
                 \cup AccessReject("joker_joint.rejection_sample",
                                   "prior_samples_joint", d)
                 \cup {Acc("plot_rv_curves", "samples", "r"),
                       Acc("plot_rv_curves", "apogee_data", "r"),
                       Acc("plot_rv_curves", "tres_data", "r")}
    /\ rnd' = rnd + 2 * PoolSize
    /\ ns2' = ns2 \cup {"data", "model", "dv0_1", "s", "prior_joint",
                        "prior_samples_joint", "joker_joint"}
    /\ prior_pars' = [prior_pars EXCEPT !["prior_joint"] =
          JokerPriorDefault(75, 90, Lognormal("s", -2, 10), v0_offsets_joint)]
    /\ pc2' = After(Cells2, "joint")
    /\ UNCHANGED <<sharpness, walk, chain_ends, prior_samples, samples_joint,
                   mcmc_init, mc, trace, converged, mcmc_samples>>

\* lines 266-296: data, prior_joint, prior_samples_joint, joker_joint,
\* samples_joint, plot of samples_joint
JointRun ==
    /\ LET d    == <<"apogee_data", "tres_data">>
           pool == Drawn(rnd, PoolSize)
           kept == rejection_sample(sharpness[d], pool, rnd + PoolSize,
                                    max_posterior_samples_joint)
       IN  /\ data' = d
           /\ prior_samples_joint' = pool
           /\ samples_joint' = kept
           /\ out2' = out2 \cup
                 {Shown("joint", "plot", "samples_joint", Echo(kept))}
           /\ access' = access \cup AccessSample("prior_joint.sample")
                 \cup AccessReject("joker_joint.rejection_sample",
                                   "prior_samples_joint", d)
                 \cup {Acc("plot_rv_curves", "samples_joint", "r"),
                       Acc("plot_rv_curves", "apogee_data", "r"),
                       Acc("plot_rv_curves", "tres_data", "r")}
    /\ rnd' = rnd + 2 * PoolSize
    /\ ns2' = ns2 \cup {"data", "model", "dv0_1", "s", "prior_joint",
                        "prior_samples_joint", "joker_joint", "samples_joint"}
    /\ prior_pars' = [prior_pars EXCEPT !["prior_joint"] =
          JokerPriorDefault(75, 90, Lognormal("s", -2, 10), v0_offsets_joint)]
    /\ pc2' = After(Cells2, "joint")
    /\ UNCHANGED <<sharpness, walk, chain_ends, prior_samples, samples,
                   mcmc_init, mc, trace, converged, mcmc_samples>>

JointCell == Cell2("joint", JointRun)

\* the MCMC cell handing setup_mcmc the TRES-only samples
McmcRunFromTres ==
    /\ LET init == setup_mcmc(data, samples)
       IN  /\ mcmc_init' = init
           /\ mc' = [chain |-> 1, tuned |-> 0, drawn |-> 0, start |-> init]
           /\ walk' = init.point
    /\ access' = access \cup
          {Acc("joker_mcmc.setup_mcmc", "samples", "r")}
          \cup {Acc("joker_mcmc.setup_mcmc", data[k], "r") : k \in DOMAIN data}
    /\ ns2' = ns2 \cup {"M0_m_omega", "omega", "M0", "dv0_1", "s",
                        "prior_mcmc", "joker_mcmc", "mcmc_init"}
    /\ prior_pars' = [prior_pars EXCEPT !["prior_mcmc"] =
          JokerPriorDefault(16, 128, Lognormal("s", -2, 5), v0_offsets_mcmc)]
    /\ pc2' = After(Cells2, "mcmc")
    /\ UNCHANGED <<rnd, sharpness, chain_ends, data, prior_samples, samples,
                   prior_samples_joint, samples_joint, trace, converged,
                   mcmc_samples, out2>>

\* lines 323-351: prior_mcmc, joker_mcmc, mcmc_init; pm.sample starts its
\* first chain at start=mcmc_init
McmcRun ==
    /\ LET init == setup_mcmc(data, samples_joint)
       IN  /\ mcmc_init' = init
           /\ mc' = [chain |-> 1, tuned |-> 0, drawn |-> 0, start |-> init]
           /\ walk' = init.point
    /\ access' = access \cup
          {Acc("joker_mcmc.setup_mcmc", "samples_joint", "r")}
          \cup {Acc("joker_mcmc.setup_mcmc", data[k], "r") : k \in DOMAIN data}
    /\ ns2' = ns2 \cup {"M0_m_omega", "omega", "M0", "dv0_1", "s",
                        "prior_mcmc", "joker_mcmc", "mcmc_init"}
    /\ prior_pars' = [prior_pars EXCEPT !["prior_mcmc"] =
          JokerPriorDefault(16, 128, Lognormal("s", -2, 5), v0_offsets_mcmc)]
    /\ pc2' = After(Cells2, "mcmc")
    /\ UNCHANGED <<rnd, sharpness, chain_ends, data, prior_samples, samples,
                   prior_samples_joint, samples_joint, trace, converged,
                   mcmc_samples, out2>>

McmcCell == Cell2("mcmc", McmcRun)

Sampling == nb = 2 /\ pc2 = "sampling" /\ err2 = "none"

\* pm.sample(random_seed=seed, chains=2): variate k of the generator of
\* chain c, which pymc seeds from random_seed and the chain number
PmStream(c, k) == (seed * c + k) % Modulus

\* one step of a chain at w, as a function of w, the data and two variates of
\* the generator of the chain: the proposal is taken when its log-likelihood,
\* relative to that of w, exceeds the log of a uniform variate
Move(w, sharp, c, n) ==
    LET proposal == PmStream(c, 2 * n)
        lnu      == 0 - (1 + PmStream(c, 2 * n + 1))
    IN  IF LnLike(sharp, proposal) - LnLike(sharp, w) > lnu
        THEN proposal ELSE w

\* r_hat of az.summary: whether the chains of a trace ended in the same
\* region of parameter space (misfits within a twentieth of the range)
RHat(ends) ==
    LET a == Misfit(ends[1])
        b == Misfit(ends[2])
        d == IF a > b THEN a - b ELSE b - a
    IN  IF 20 * d <= Modulus THEN "ok" ELSE "high"

\* lines 351-353, pm.sample(tune=1000, ...): one tuning step of the chain
TuneStep ==
    /\ Sampling
    /\ UNCHANGED <<nb, vars1>>
    /\ mc.tuned < tune
    /\ mc' = [mc EXCEPT !.tuned = @ + 1]
    /\ walk' = Move(walk, sharpness[data], mc.chain, mc.tuned + 1)
    /\ UNCHANGED <<pc2, ns2, rnd, sharpness, prior_pars, chain_ends, data,
                   prior_samples, samples, prior_samples_joint,
                   samples_joint, mcmc_init, trace, converged, mcmc_samples,
                   out2, access, err2>>

\* a sampler that draws once more when the draw count has been reached
DrawStepInclusive ==
    /\ Sampling
    /\ UNCHANGED <<nb, vars1>>
    /\ mc.tuned = tune
    /\ mc.drawn <= draws
    /\ mc' = [mc EXCEPT !.drawn = @ + 1]
    /\ walk' = Move(walk, sharpness[data], mc.chain, tune + mc.drawn + 1)
    /\ UNCHANGED <<pc2, ns2, rnd, sharpness, prior_pars, chain_ends, data,
                   prior_samples, samples, prior_samples_joint,
                   samples_joint, mcmc_init, trace, converged, mcmc_samples,
                   out2, access, err2>>

\* pm.sample(draws=500, ...): one posterior draw of the chain, tuning done
DrawStep ==
    /\ Sampling
    /\ UNCHANGED <<nb, vars1>>
    /\ mc.tuned = tune
    /\ mc.drawn < draws
    /\ mc' = [mc EXCEPT !.drawn = @ + 1]
    /\ walk' = Move(walk, sharpness[data], mc.chain, tune + mc.drawn + 1)
    /\ UNCHANGED <<pc2, ns2, rnd, sharpness, prior_pars, chain_ends, data,
                   prior_samples, samples, prior_samples_joint,
                   samples_joint, mcmc_init, trace, converged, mcmc_samples,
                   out2, access, err2>>

\* pm.sample(chains=2, cores=1): a finished chain is followed by the next one,
\* started from the same start point; the tuning steps are discarded
NextChain ==
    /\ Sampling
    /\ UNCHANGED <<nb, vars1>>
    /\ mc.tuned = tune
    /\ mc.drawn = draws
    /\ mc.chain < chains
    /\ trace' = Append(trace, mc.drawn)
    /\ chain_ends' = Append(chain_ends, walk)
    /\ walk' = mc.start.point
    /\ mc' = [mc EXCEPT !.chain = @ + 1, !.tuned = 0, !.drawn = 0]
    /\ UNCHANGED <<pc2, ns2, rnd, sharpness, prior_pars, data, prior_samples,
                   samples, prior_samples_joint, samples_joint, mcmc_init,
                   converged, mcmc_samples, out2, access, err2>>

\* the last chain has finished: pm.sample returns and trace is bound.  Whether
\* the chains agree (r_hat) is a property of the trace.
SampleDone ==
    /\ Sampling
    /\ UNCHANGED <<nb, vars1>>
    /\ mc.tuned = tune
    /\ mc.drawn = draws
    /\ mc.chain = chains
    /\ trace' = Append(trace, mc.drawn)
    /\ chain_ends' = Append(chain_ends, walk)
    /\ converged' = RHat(Append(chain_ends, walk))
    /\ ns2' = ns2 \cup {"trace"}
    /\ pc2' = After(Cells2, "sampling")
    /\ UNCHANGED <<rnd, sharpness, prior_pars, walk, data, prior_samples,
                   samples, prior_samples_joint, samples_joint, mcmc_init,
                   mc, mcmc_samples, out2, access, err2>>

RECURSIVE SumSeq(_)
SumSeq(q) == IF q = <<>> THEN 0 ELSE Head(q) + SumSeq(Tail(q))

\* lines 371-377: mcmc_samples (from_inference_data, then wrap_K), df, and the
\* az.summary table with r_hat
ResultsRun ==
    /\ mcmc_samples' = [n |-> SumSeq(trace), wrapped |-> TRUE]
    /\ out2' = out2 \cup {Shown("results", "echo", "az.summary", SumSeq(trace))}
    /\ access' = access \cup
          {Acc("from_inference_data", "prior_joint", "r"),
           Acc("from_inference_data", "trace", "r"),
           Acc("wrap_K", "mcmc_samples", "r"),
           Acc("to_pandas", "mcmc_samples", "r"),
           Acc("az.summary", "trace", "r"),
           Acc("az.summary", "prior_mcmc", "r")}
          \cup {Acc("from_inference_data", data[k], "r") : k \in DOMAIN data}
    /\ ns2' = ns2 \cup {"mcmc_samples", "df"}
    /\ pc2' = After(Cells2, "results")
    /\ UNCHANGED <<rnd, sharpness, prior_pars, walk, chain_ends, data,
                   prior_samples, samples, prior_samples_joint,
                   samples_joint, mcmc_init, mc, trace, converged>>

ResultsCell == Cell2("results", ResultsRun)

\* line 395: the corner plot of df
CornerRun ==
    /\ out2' = out2 \cup {Shown("corner", "plot", "df", mcmc_samples.n)}
    /\ access' = access \cup {Acc("corner", "df", "r")}
    /\ pc2' = After(Cells2, "corner")
    /\ UNCHANGED <<ns2, rnd, sharpness, prior_pars, walk, chain_ends, data,
                   prior_samples, samples, prior_samples_joint,
                   samples_joint, mcmc_init, mc, trace, converged,
                   mcmc_samples>>

CornerCell == Cell2("corner", CornerRun)

\* line 417: mcmc_samples.get_orbit(i).m_f of the sampled orbits, plotted
MassFunctionRun ==
    /\ out2' = out2 \cup {Shown("mass_function", "plot", "m_f", mcmc_samples.n)}
    /\ access' = access \cup {Acc("get_orbit.m_f", "mcmc_samples", "r")}
    /\ pc2' = After(Cells2, "mass_function")
    /\ UNCHANGED <<ns2, rnd, sharpness, prior_pars, walk, chain_ends, data,
                   prior_samples, samples, prior_samples_joint,
                   samples_joint, mcmc_init, mc, trace, converged,
                   mcmc_samples>>

MassFunctionCell == Cell2("mass_function", MassFunctionRun)

DataLists == {<<"tres_data">>, <<"apogee_data", "tres_data">>}

Init2 ==
    /\ pc2 = Cells2[1]
    /\ ns2 = {}
    /\ rnd = 0
    /\ sharpness \in [DataLists -> Sharpness]
    /\ prior_pars = [p \in Priors |-> NoPrior]
    /\ data = <<>>
    /\ prior_samples = {}
    /\ samples = {}
    /\ prior_samples_joint = {}
    /\ samples_joint = {}
    /\ mcmc_init = NoInit
    /\ mc = [chain |-> 0, tuned |-> 0, drawn |-> 0, start |-> NoInit]
    /\ trace = <<>>
    /\ walk = 0
    /\ chain_ends = <<>>
    /\ converged = "unset"
    /\ mcmc_samples = [n |-> 0, wrapped |-> FALSE]
    /\ out2 = {}
    /\ access = {}
    /\ err2 = "none"

-----------------------------------------------------------------------------
(* Notebook 1: the quantities the markdown cells define *)

\* line 243: FWHM ~ 2.335 sigma; sigma in A, the result in mA
FWHM(sigma) == 2335 * sigma

\* lines 245-248: delta lambda / lambda = v / c at H-beta (line 128, 4862 A);
\* the width in mA, the result in km/s
Velocity(width) == (299792 * width) \div (4862 * 1000)

\* the power 0.65 of a luminosity that is the 20th power of k, in 1e46 erg/s
Pow065(L) ==
    LET k == CHOOSE r \in 0..2 : r^20 = L
    IN  k^13

\* the mass equation with the luminosity factor in the denominator
BHMassInverseL(L, v) ==
    IF Pow065(L) = 0 THEN 0 ELSE (105 * v * v) \div Pow065(L)

\* lines 195-199: M = 1.05e8 (L5100 / 1e46 erg/s)^0.65 (FWHM / 1e3 km/s)^2
BHMass(L, v) == 105 * Pow065(L) * v * v

\* line 309: '%.3f' % (M / 1e4), in thousandths of 1e4 solar masses
Printed(m) == (m + 5) \div 10

-----------------------------------------------------------------------------
(* Notebook 1, cell by cell *)

\* what the spectrum can give: an average continuum flux of zero or more, and
\* any widths an unconstrained least-squares fit may return
Luminosities == {0, 1}

Sigmas == {-1, 1, 2, 3}

NoFit == [narrow |-> 0, broad |-> 0]

\* the cells with the luminosity cell moved behind the fit and its plot
Cells1LuminosityLast ==
    <<"load", "redshift", "maps", "locate", "subtract", "fit", "plot_fit",
      "luminosity", "mass", "done">>

\* the code cells in the order of the file
Cells1 == <<"load", "redshift", "maps", "locate", "subtract", "luminosity",
            "fit", "plot_fit", "mass", "done">>

Reads1(c) ==
    CASE c = "redshift"   -> {"wavelength"}
      [] c = "maps"       -> {"cube", "wavelength_rest"}
      [] c = "locate"     -> {"cube", "stellar_cont_model", "wavelength_rest"}
      [] c = "subtract"   -> {"plt", "wavelength_rest", "spec_agn", "spec_model"}
      [] c = "luminosity" -> {"wavelength_rest", "spec_agn", "z"}
      [] c = "fit"        -> {"wavelength_rest", "spec_agn", "spec_model"}
      [] c = "plot_fit"   -> {"plt", "wavelength_rest", "spec_agn", "spec_model",
                              "comp4_gauss", "popt"}
      [] c = "mass"       -> {"L5100", "fwhm"}
      [] OTHER            -> {}

Raise1(e) ==
    /\ err1' = e
    /\ UNCHANGED <<pc1, ns1, L5100, popt, fwhm, M, out1, done1>>

Cell1(c, run) ==
    /\ nb = 1
    /\ pc1 = c
    /\ err1 = "none"
    /\ IF Reads1(c) \subseteq ns1 THEN run ELSE Raise1("NameError")
    /\ UNCHANGED <<nb, vars2>>

\* lines 58-63: the wavelength axis, the cube and the stellar continuum model
LoadRun ==
    /\ ns1' = ns1 \cup {"np", "wavelength", "cube", "stellar_cont_model"}
    /\ done1' = Append(done1, "load")
    /\ pc1' = After(Cells1, "load")
    /\ UNCHANGED <<L5100, popt, fwhm, M, out1, err1>>

LoadCell == Cell1("load", LoadRun)

\* lines 85-86: z = 0.039 and the rest-frame wavelength axis
RedshiftRun ==
    /\ ns1' = ns1 \cup {"z", "wavelength_rest"}
    /\ done1' = Append(done1, "redshift")
    /\ pc1' = After(Cells1, "redshift")
    /\ UNCHANGED <<L5100, popt, fwhm, M, out1, err1>>

RedshiftCell == Cell1("redshift", RedshiftRun)

\* lines 106-112: the flux maps at two wavelengths
MapsRun ==
    /\ ns1' = ns1 \cup {"plt", "os"}
    /\ out1' = out1 \cup {<<"flux maps", 0>>}
    /\ done1' = Append(done1, "maps")
    /\ pc1' = After(Cells1, "maps")
    /\ UNCHANGED <<L5100, popt, fwhm, M, err1>>

MapsCell == Cell1("maps", MapsRun)

\* lines 138-142: the spaxel of the H-beta peak and its two spectra
LocateRun ==
    /\ ns1' = ns1 \cup {"x", "y", "spec_agn", "spec_model"}
    /\ out1' = out1 \cup {<<"agn spectrum", 0>>}
    /\ done1' = Append(done1, "locate")
    /\ pc1' = After(Cells1, "locate")
    /\ UNCHANGED <<L5100, popt, fwhm, M, err1>>

LocateCell == Cell1("locate", LocateRun)

\* lines 160-169: spec_agn - spec_model around H-beta, plotted
SubtractRun ==
    /\ out1' = out1 \cup {<<"continuum-subtracted spectrum", 0>>}
    /\ done1' = Append(done1, "subtract")
    /\ pc1' = After(Cells1, "subtract")
    /\ UNCHANGED <<ns1, L5100, popt, fwhm, M, err1>>

SubtractCell == Cell1("subtract", SubtractRun)

\* lines 227-229: L5100 from the mean flux in 5095-5105 A
LuminosityRun ==
    /\ \E l \in Luminosities : L5100' = l
    /\ ns1' = ns1 \cup {"L5100"}
    /\ done1' = Append(done1, "luminosity")
    /\ pc1' = After(Cells1, "luminosity")
    /\ UNCHANGED <<popt, fwhm, M, out1, err1>>

LuminosityCell == Cell1("luminosity", LuminosityRun)

\* lines 260-268: curve_fit of comp4_gauss returns popt, or raises RuntimeError
\* when the optimizer does not converge; then fwhm from the broad width
FitRun ==
    \/ /\ \E sn \in Sigmas, sb \in Sigmas :
            /\ popt' = [narrow |-> sn, broad |-> sb]
            /\ fwhm' = Velocity(FWHM(sb))
       /\ ns1' = ns1 \cup {"curve_fit", "comp4_gauss", "popt", "fwhm"}
       /\ done1' = done1 \o <<"fit", "fwhm">>
       /\ pc1' = After(Cells1, "fit")
       /\ UNCHANGED <<L5100, M, out1, err1>>
    \/ /\ ns1' = ns1 \cup {"curve_fit", "comp4_gauss"}
       /\ err1' = "RuntimeError"
       /\ UNCHANGED <<pc1, L5100, popt, fwhm, M, out1, done1>>

FitCell == Cell1("fit", FitRun)

\* lines 278-288: the fitted profile comp4_gauss(wavelength_rest, *popt)
PlotFitRun ==
    /\ out1' = out1 \cup {<<"fitted profile", 0>>}
    /\ done1' = Append(done1, "plot_fit")
    /\ pc1' = After(Cells1, "plot_fit")
    /\ UNCHANGED <<ns1, L5100, popt, fwhm, M, err1>>

PlotFitCell == Cell1("plot_fit", PlotFitRun)

\* lines 307-309: M from the mass equation, then the print of M / 1e4
MassRun ==
    /\ M' = BHMass(L5100, fwhm)
    /\ out1' = out1 \cup {<<"mass", Printed(BHMass(L5100, fwhm))>>}
    /\ ns1' = ns1 \cup {"M"}
    /\ done1' = Append(done1, "mass")
    /\ pc1' = After(Cells1, "mass")
    /\ UNCHANGED <<L5100, popt, fwhm, err1>>

MassCell == Cell1("mass", MassRun)

Init1 ==
    /\ pc1 = Cells1[1]
    /\ ns1 = {}
    /\ L5100 = 0
    /\ popt = NoFit
    /\ fwhm = 0
    /\ M = 0
    /\ out1 = {}
    /\ done1 = <<>>
    /\ err1 = "none"

-----------------------------------------------------------------------------
Init ==
    /\ nb \in {1, 2}
    /\ Init1
    /\ Init2
    /\ nb = 1 => sharpness = [d \in DataLists |-> 0]

Next ==
    \/ LoadCell
    \/ RedshiftCell
    \/ MapsCell
    \/ LocateCell
    \/ SubtractCell
    \/ LuminosityCell
    \/ FitCell
    \/ PlotFitCell
    \/ MassCell
    \/ ImportsCell
    \/ RVDataCell
    \/ TresCell
    \/ TblCell
    \/ PlotTresCell
    \/ JointCell
    \/ McmcCell
    \/ TuneStep
    \/ DrawStep
    \/ NextChain
    \/ SampleDone
    \/ ResultsCell
    \/ CornerCell
    \/ MassFunctionCell

Spec == Init /\ [][Next]_vars

-----------------------------------------------------------------------------
(* Rejection sampling of a prior that is a single point: the pool passed   *)
(* to joker.rejection_sample holds one sample, at any position of the      *)
(* generator.                                                              *)

MaxPointSample == 5

MaxPointDraw == 5

\* the sample whose orbit the data are evaluations of (its misfit is zero),
\* and some others
PointSamples == {Modulus - seed} \cup (1..MaxPointSample)

PointPriorInit ==
    /\ nb = 2
    /\ Init1
    /\ pc2 = "tres"
    /\ ns2 = {"seed", "rnd", "tres_tbl", "apogee_tbl", "tres_data",
              "apogee_data", "prior_samples"}
    /\ rnd \in 0..MaxPointDraw
    /\ sharpness \in [DataLists -> Sharpness]
    /\ prior_pars = [p \in Priors |-> NoPrior]
    /\ data = <<>>
    /\ \E i \in PointSamples : prior_samples = {i}
    /\ samples = {}
    /\ prior_samples_joint = {}
    /\ samples_joint = {}
    /\ mcmc_init = NoInit
    /\ mc = [chain |-> 0, tuned |-> 0, drawn |-> 0, start |-> NoInit]
    /\ trace = <<>>
    /\ walk = 0
    /\ chain_ends = <<>>
    /\ converged = "unset"
    /\ mcmc_samples = [n |-> 0, wrapped |-> FALSE]
    /\ out2 = {}
    /\ access = {}
    /\ err2 = "none"

\* line 200: samples = joker.rejection_sample(tres_data, prior_samples,
\* max_posterior_samples=256)
PointPriorReject ==
    /\ nb = 2
    /\ pc2 = "tres"
    /\ "samples" \notin ns2
    /\ samples' = rejection_sample(sharpness[<<"tres_data">>], prior_samples,
                                   rnd, max_posterior_samples)
    /\ rnd' = rnd + Cardinality(prior_samples)
    /\ ns2' = ns2 \cup {"joker", "samples"}
    /\ pc2' = After(Cells2, "tres")
    /\ UNCHANGED <<nb, vars1, sharpness, prior_pars, walk, chain_ends, data,
                   prior_samples, prior_samples_joint, samples_joint,
                   mcmc_init, mc, trace, converged, mcmc_samples, out2,
                   access, err2>>

PointPriorSpec == PointPriorInit /\ [][PointPriorReject]_vars

\* lines 351-353: pm.sample is one synchronous call; its loop keeps stepping
\* until the call returns
SampleStep == TuneStep \/ DrawStep \/ NextChain \/ SampleDone

FairSpec == Spec /\ WF_vars(SampleStep)

-----------------------------------------------------------------------------
(* The claims *)

Max(S) == CHOOSE x \in S : \A y \in S : x >= y

\* the samples of pool that, under data list d, pass the acceptance test: the
\* log-likelihood, relative to the best of the pool, exceeds the log of the
\* uniform variate drawn for the sample (the variates follow the pool in the
\* stream)
Passing(pool, d) ==
    LET best == Max({LnLike(sharpness[d], j) : j \in pool})
        n    == Cardinality(pool)
    IN  {i \in pool : LnLike(sharpness[d], i) - best > LnUniform(i + n)}

\* C1: in both rejection-sampling runs the retained samples are samples of
\* the pool passed in and there are never more than N = 256 of them; when the
\* call returns, each retained sample is one that passed the acceptance test.
C1_RetainedFromPoolAtMostN ==
    /\ "samples" \in ns2 =>
          /\ samples \subseteq prior_samples
          /\ Cardinality(samples) <= 256
          /\ pc2 = "tbl" =>
                samples \subseteq Passing(prior_samples, <<"tres_data">>)
    /\ "samples_joint" \in ns2 =>
          /\ samples_joint \subseteq prior_samples_joint
          /\ Cardinality(samples_joint) <= 256
          /\ pc2 = "mcmc" =>
                samples_joint \subseteq Passing(prior_samples_joint, data)

\* every sample of the pool passed the test in one run (the data do not
\* constrain the orbit) and 256 were retained; fewer passed in the other
C1_Witness ==
    /\ pc2 = "mcmc"
    /\ Cardinality(samples) = 256
    /\ sharpness[<<"tres_data">>] = 0
    /\ Cardinality(samples_joint) \in 2..255

C3_NoReportUnlessConverged ==
    ("df" \in ns2 \/ \E o \in out2 : o.cell \in {"corner", "mass_function"})
        => converged = "ok"

\* C4: when the fit does not converge, or the broad and narrow H-beta widths
\* come out equal, the run is in a failure state and no popt, FWHM or mass
\* has been produced.
C4_FitFailureSurfaced ==
    ("curve_fit" \in ns1 /\ ("popt" \notin ns1 \/ popt.narrow = popt.broad))
        => /\ err1 # "none"
           /\ {"popt", "fwhm", "M"} \cap ns1 = {}

\* C5: a mass is computed or printed only from a positive luminosity and a
\* positive FWHM.
C5_InvalidInputsRejected ==
    ("M" \in ns1 \/ \E o \in out1 : o[1] = "mass")
        => (L5100 > 0 /\ fwhm > 0)

\* C6: pm.sample runs 2 chains one after the other, each with 1000 tuning
\* steps followed by 500 draws; once started it always returns a trace of
\* 2 x 500 draws, and no chain steps after the trace has been returned.
C6_McmcTerminates ==
    /\ [](/\ mc.chain <= 2
          /\ mc.tuned <= 1000
          /\ mc.drawn <= 500
          /\ mc.drawn > 0 => mc.tuned = 1000
          /\ Len(trace) <= 2
          /\ \A k \in DOMAIN trace : trace[k] = 500
          /\ "trace" \in ns2 => trace = <<500, 500>>)
    /\ (nb = 2 /\ pc2 = "sampling") ~> ("trace" \in ns2)
    /\ [][("trace" \in ns2) => (mc' = mc /\ trace' = trace)]_vars

C6_Witness ==
    /\ pc2 = "results"
    /\ trace = <<500, 500>>
    /\ mc = [chain |-> 2, tuned |-> 1000, drawn |-> 500, start |-> mcmc_init]

\* C7: whenever pm.sample has started, the joint rejection sampling has
\* finished and the start point is the one setup_mcmc computed from
\* samples_joint, a member of it, for the data list of the joint sampling.
C7_StartFromJointSamples ==
    mc.chain > 0 =>
        /\ "samples_joint" \in ns2
        /\ "mcmc_init" \in ns2
        /\ mc.start = mcmc_init
        /\ mcmc_init.point \in samples_joint
        /\ mcmc_init.data = <<"apogee_data", "tres_data">>
        /\ mcmc_init.data = data
        /\ (mc.chain = 1 /\ mc.tuned = 0) =>
              mcmc_init = setup_mcmc(data, samples_joint)

C7_Witness ==
    /\ mc.chain = 2
    /\ mc.drawn > 0
    /\ Cardinality(samples_joint) > 1
    /\ mc.start.point \in samples_joint

\* what an operation on a posterior sample set is: part of producing it,
\* the computation of a derived quantity, a display, or MCMC initialisation
OpKind(op) ==
    CASE op \in {"from_inference_data", "wrap_K"}              -> "produce"
      [] op = "get_orbit.m_f"                                  -> "derived"
      [] op \in {"plot_rv_curves", "samples.tbl", "to_pandas",
                 "corner", "tres_data.plot"}                   -> "plot"
      [] op = "joker_mcmc.setup_mcmc"                          -> "mcmc init"
      [] OTHER                                                 -> "other"

PosteriorSets == {"samples", "samples_joint", "mcmc_samples"}

\* the kinds of the operations of later stages that have read a posterior set
ReaderKinds ==
    {OpKind(a.op) : a \in {b \in access : b.obj \in PosteriorSets}}
        \ {"produce"}

\* C8 as stated: the posterior sample sets are read only by derived-quantity
\* computation and plotting.
C8_ReadOnlyByDerivedAndPlots == ReaderKinds \subseteq {"derived", "plot"}

\* C8: a posterior sample set, once bound, is never changed or written to by
\* a later cell; it is read by derived-quantity computation, by plotting and
\* display, and samples_joint also by setup_mcmc to initialise the MCMC.
C8_ImmutableReadByDerivedPlotsAndInit ==
    /\ [](/\ ReaderKinds \subseteq {"derived", "plot", "mcmc init"}
          /\ \A a \in access :
                /\ a.obj \in PosteriorSets => a.mode = "r"
                /\ OpKind(a.op) = "mcmc init" =>
                      a.obj \in {"samples_joint", "apogee_data", "tres_data"})
    /\ [][/\ "samples" \in ns2 => samples' = samples
          /\ "samples_joint" \in ns2 => samples_joint' = samples_joint
          /\ "mcmc_samples" \in ns2 => mcmc_samples' = mcmc_samples]_vars

C8_Witness ==
    /\ pc2 = "done"
    /\ Acc("joker_mcmc.setup_mcmc", "samples_joint", "r") \in access
    /\ Acc("get_orbit.m_f", "mcmc_samples", "r") \in access
    /\ Acc("plot_rv_curves", "samples", "r") \in access

\* the stages of notebook 1 the pipeline description names
StageNames ==
    {"load", "redshift", "locate", "subtract", "fit", "fwhm", "luminosity",
     "mass"}

IsStage(x) == x \in StageNames

IsPrefix(p, q) == Len(p) <= Len(q) /\ \A k \in DOMAIN p : p[k] = q[k]

\* C9 as stated: the stages complete in the order load, redshift, locate,
\* subtract, fit, FWHM, luminosity, mass.
C9_StagesInStatedOrder ==
    IsPrefix(SelectSeq(done1, IsStage),
             <<"load", "redshift", "locate", "subtract", "fit", "fwhm",
               "luminosity", "mass">>)

\* C9: the stages of notebook 1 complete one after the other in the order
\* load, redshift, locate, subtract, luminosity, fit, FWHM, mass; a finished
\* run has completed all of them.
C9_StagesInCellOrder ==
    /\ IsPrefix(SelectSeq(done1, IsStage),
                <<"load", "redshift", "locate", "subtract", "luminosity",
                  "fit", "fwhm", "mass">>)
    /\ pc1 = "done" => Len(SelectSeq(done1, IsStage)) = 8

C9_Witness ==
    /\ pc1 = "done"
    /\ "M" \in ns1
    /\ done1[Len(done1)] = "mass"

Jitters(p) ==
    Cardinality({k \in DOMAIN prior_pars[p].par_names :
                    prior_pars[p].par_names[k] = prior_pars[p].s.name})

\* C11 as stated: the prior of a fit has one offset parameter per dataset of
\* its data list.
C11_OneOffsetPerDataset ==
    /\ "prior" \in ns2 => Len(prior_pars["prior"].v0_offsets) = 1
    /\ "prior_joint" \in ns2 =>
          Len(prior_pars["prior_joint"].v0_offsets) = Len(data)
    /\ "prior_mcmc" \in ns2 =>
          Len(prior_pars["prior_mcmc"].v0_offsets) = Len(data)

\* C11: the prior of a fit has one offset parameter for every dataset of its
\* data list but the first, whose zero point is the systemic velocity v0
\* (none for the TRES-only fit, one for the joint fit and the MCMC), the
\* offsets are distinct parameters, and each prior has the single jitter s.
C11_OneOffsetPerExtraDataset ==
    /\ "prior" \in ns2 =>
          /\ Len(prior_pars["prior"].v0_offsets) = 0
          /\ Jitters("prior") = 1
    /\ \A p \in {"prior_joint", "prior_mcmc"} :
          p \in ns2 =>
              /\ Len(data) = 2
              /\ Len(prior_pars[p].v0_offsets) = Len(data) - 1
              /\ Len(prior_pars[p].par_names) = 7 + Len(data) - 1
              /\ \A j, k \in DOMAIN prior_pars[p].par_names :
                    prior_pars[p].par_names[j] = prior_pars[p].par_names[k]
                        => j = k
              /\ prior_pars[p].s.name = "s"
              /\ Jitters(p) = 1

C11_Witness ==
    /\ pc2 = "sampling"
    /\ data = <<"apogee_data", "tres_data">>
    /\ prior_pars["prior_joint"].v0_offsets = <<"dv0_1">>
    /\ prior_pars["prior_mcmc"].par_names[8] = "dv0_1"

\* the largest FWHM, in km/s, at which the mass of the largest luminosity
\* below is evaluated
MaxTestVelocity == 40

\* positive luminosities whose power 0.65 is exact: 1e46 and 2^20 * 1e46 erg/s
TestLuminosities == {1, 2^20}

TestVelocities == 1..MaxTestVelocity

\* C12: the mass of the mass equation is strictly increasing in L5100 at
\* fixed FWHM and strictly increasing in FWHM at fixed L5100, for positive
\* inputs, and is exactly 1.05e8 solar masses at L5100 = 1e46 erg/s and
\* FWHM = 1e3 km/s; the mass a run computes from positive inputs is that of
\* the equation and lies strictly between those of a smaller and a larger
\* FWHM.
C12_MassIncreasingAndNormalised ==
    "M" \in ns1 =>
        /\ BHMass(1, 1000) = 105000000
        /\ \A v \in TestVelocities :
              \A l1, l2 \in TestLuminosities :
                  l1 < l2 => BHMass(l1, v) < BHMass(l2, v)
        /\ \A l \in TestLuminosities :
              \A v1, v2 \in TestVelocities :
                  v1 < v2 => BHMass(l, v1) < BHMass(l, v2)
        /\ (L5100 > 0 /\ fwhm > 0) =>
              /\ M = BHMass(L5100, fwhm)
              /\ M > 0
              /\ BHMass(L5100, fwhm - 1) < M
              /\ M < BHMass(L5100, fwhm + 1)
              /\ M < BHMass(L5100, 1000)
              /\ \A l \in TestLuminosities :
                    /\ l < L5100 => BHMass(l, 1) < BHMass(L5100, 1)
                    /\ l > L5100 => BHMass(l, 1) > BHMass(L5100, 1)

C12_Witness ==
    /\ pc1 = "done"
    /\ L5100 = 1
    /\ popt.broad = 2
    /\ fwhm = 287
    /\ M = 105 * 287 * 287

C14_FwhmIs2355Sigma ==
    "fwhm" \in ns1 => fwhm = Velocity(2355 * popt.broad)

\* where chain c is after steps lo..hi, having been at w before step lo
RECURSIVE WalkFrom(_, _, _, _, _)
WalkFrom(w, sharp, c, lo, hi) ==
    IF lo > hi THEN w
    ELSE IF lo = hi THEN Move(w, sharp, c, lo)
    ELSE LET mid == (lo + hi) \div 2
         IN  CHOOSE r \in {WalkFrom(l, sharp, c, mid + 1, hi) :
                              l \in {WalkFrom(w, sharp, c, lo, mid)}} : TRUE

\* what a top-to-bottom run yields, as functions of the seed and the data only
SeededPool == Drawn(0, PoolSize)

SeededSamples ==
    rejection_sample(sharpness[<<"tres_data">>], SeededPool, PoolSize,
                     max_posterior_samples)

SeededPoolJoint == Drawn(2 * PoolSize, PoolSize)

SeededSamplesJoint ==
    rejection_sample(sharpness[<<"apogee_data", "tres_data">>],
                     SeededPoolJoint, 3 * PoolSize,
                     max_posterior_samples_joint)

SeededChainEnds ==
    LET init == setup_mcmc(<<"apogee_data", "tres_data">>, samples_joint)
    IN  [c \in 1..chains |->
            WalkFrom(init.point, sharpness[<<"apogee_data", "tres_data">>],
                     c, 1, tune + draws)]

=============================================================================
